---- MODULE Spec2Model ----
(***************************************************************************)
(* Model of the LDAPIdentityProvider reconciliation loop of ocm-operator:  *)
(* the Reconcile dispatcher and finalizer helpers of                       *)
(* controllers/controllers.go and the phases of                            *)
(* controllers/ldapidentityprovider/phases.go, run against an object       *)
(* store (the Kubernetes API) and an external store (OpenShift Cluster     *)
(* Manager).                                                               *)
(***************************************************************************)
EXTENDS Integers, Sequences, FiniteSets, TLC

VARIABLES
  storeExists,      \* ObjectStore: the custom resource exists
  storeSpec,        \* ObjectStore: its spec
  storeDeleting,    \* ObjectStore: its deletion timestamp is set
  storeFinalizers,  \* ObjectStore: metadata.finalizers
  storeStatus,      \* ObjectStore: status (conditions, clusterID, providerID)
  remote,           \* ExternalStore: natural key -> identity provider, if any
  pc,               \* position of the pass: "idle", a phase name, or "done"
  trigger,          \* trigger.String() of the pass
  handler,          \* the Reconcile* handler that Reconcile invoked
  original,         \* request.Original (in memory)
  snapshot,         \* the object as NewRequest read it (never mutated)
  desired,          \* request.Desired.Spec
  current,          \* request.Current.Spec, None when nil
  ocmClient,        \* request.OCMClient: the natural key it addresses, or None
  idp,              \* what request.OCMClient.Get() returned in this pass
  phaseLog,         \* the phases run in this pass, with what each returned
  calls,            \* calls issued in this pass, per collaborator method
  events,           \* audit events recorded in this pass
  patches,          \* status patches issued in this pass: base, mutated, outcome
  clusterLookup,    \* outcome of the cluster lookup of this pass, "none" before
  result,           \* ctrl.Result returned by the pass
  err,              \* error returned by the pass
  now,              \* metav1.Now(), one tick per pass
  hist,             \* facts about earlier passes
  budget,           \* environment changes made so far
  fin,              \* direct AddFinalizer/RemoveFinalizer calls on one object
  cnd,              \* direct condition updates on one object, as a log
  live              \* whether collaborator failures are counted, and their count

vars == <<storeExists, storeSpec, storeDeleting, storeFinalizers, storeStatus,
          remote, pc, trigger, handler, original, snapshot, desired, current,
          ocmClient, idp, phaseLog, calls, events, patches, clusterLookup,
          result, err, now, hist, budget, fin, cnd, live>>

-----------------------------------------------------------------------------
(* Bounds *)

MaxPasses == 2
MaxChanges == 1
MaxFinCalls == 3
MaxCondCalls == 3
MaxFailures == 2

-----------------------------------------------------------------------------
(* Values *)

None == <<>>
Some(x) == <<x>>

\* An error is the chain of its wrapped messages; nil is the empty chain.
NilErr == <<>>

ClusterNames == {"k1", "k2"}
DisplayNames == {"n1", "n2"}
SecretNames == {"bp1", "bp2"}
CANames == {"ca1", "ca2"}
MappingMethods == {"claim", "add"}
URLs == {"u1", "u2"}

SpecFields == {"ClusterName", "DisplayName", "BindPasswordName", "CAName",
               "MappingMethod", "URL"}

FieldValues(f) ==
  CASE f = "ClusterName" -> ClusterNames
    [] f = "DisplayName" -> DisplayNames
    [] f = "BindPasswordName" -> SecretNames
    [] f = "CAName" -> CANames
    [] f = "MappingMethod" -> MappingMethods
    [] f = "URL" -> URLs

D0 == [ClusterName |-> "k1", DisplayName |-> "n1", BindPasswordName |-> "bp1",
       CAName |-> "ca1", MappingMethod |-> "claim", URL |-> "u1"]

\* The cluster id OpenShift Cluster Manager holds for a cluster name.
ClusterIDOf(name) == IF name = "k1" THEN "cid1" ELSE "cid2"
ClusterIDs == {ClusterIDOf(n) : n \in ClusterNames}

\* The id OpenShift Cluster Manager gives an identity provider.
ProviderIDOf(name) == IF name = "n1" THEN "pid1" ELSE "pid2"

Keys == DisplayNames \X ClusterIDs

\* The content of the config map / secret a name refers to.
CAData(name) == <<"pem", name>>
SecretData(name) == <<"password", name>>

-----------------------------------------------------------------------------
(* controllers.go: results *)

defaultLDAPIdentityProviderRequeue == 30
Interval == 300

RequeueAfter(seconds) == [Requeue |-> TRUE, RequeueAfter |-> seconds]
NoRequeue == [Requeue |-> FALSE, RequeueAfter |-> 0]

ErrTriggerUnknown == <<"ErrTriggerUnknown">>
ErrPatch == <<"patch failed">>
ErrOCM == <<"ocm request failed">>
ErrMissingClusterID == <<"ErrMissingClusterID">>
ErrGet == <<"object store get failed">>

\* fmt.Errorf("... - %w", err)
Wrap(message, e) == <<message>> \o e

ReconcileError(message, e) ==
  IF e = NilErr THEN NilErr ELSE Wrap(message, e)

-----------------------------------------------------------------------------
(* pkg/conditions *)

Condition(type, reason, message, t) ==
  [type |-> type, status |-> "True", reason |-> reason, message |-> message,
   lastTransitionTime |-> t]

Reconciling(trig, t) == Condition("Reconciling", trig, "reconciling", t)
Reconciled(trig, t) == Condition("Reconciled", trig, "reconciled", t)

identityProviderConditionTypeDeleted == "IdentityProviderDeleted"
identityProviderMessageDeleted ==
  "identity provider has been deleted from openshift cluster manager"

IdentityProviderDeleted(t) ==
  Condition(identityProviderConditionTypeDeleted, "Delete",
            identityProviderMessageDeleted, t)

MachinePoolDeleted(t) ==
  Condition("MachinePoolDeleted", "Delete",
            "machine pool has been deleted from openshift cluster manager", t)

\* IsSet: a condition of this type with this status is on the object.
IsSet(condition, conditions) ==
  \E i \in 1..Len(conditions) :
    /\ conditions[i].type = condition.type
    /\ conditions[i].status = condition.status

\* SetCondition replacing the entry wholesale, transition time included.
SetConditionRestamp(conditions, c) ==
  IF \E i \in 1..Len(conditions) : conditions[i].type = c.type
  THEN [i \in 1..Len(conditions) |->
          IF conditions[i].type # c.type THEN conditions[i] ELSE c]
  ELSE Append(conditions, c)

\* SetCondition adding an entry on every call.
SetConditionAppend(conditions, c) == Append(conditions, c)

\* SetCondition: replace the entry of the same type, or append a new one; the
\* transition time moves only when the status changes.
SetCondition(conditions, c) ==
  IF \E i \in 1..Len(conditions) : conditions[i].type = c.type
  THEN [i \in 1..Len(conditions) |->
          IF conditions[i].type # c.type THEN conditions[i]
          ELSE IF conditions[i].status # c.status THEN c
          ELSE [conditions[i] EXCEPT !.reason = c.reason,
                                     !.message = c.message]]
  ELSE Append(conditions, c)

-----------------------------------------------------------------------------
(* ObjectStore: merge patches *)

StatusFields == {"conditions", "clusterID", "providerID"}

\* A merge patch carries the fields in which the mutated object differs from
\* the base, and overwrites exactly those in the store.
PatchStatus(base, mutated, stored) ==
  [f \in StatusFields |-> IF base[f] # mutated[f] THEN mutated[f] ELSE stored[f]]

-----------------------------------------------------------------------------
(* controllers.go: finalizers *)

FinalizerName == "ldapidentityprovider.ocm.mobb.redhat.com/finalizer"
OtherFinalizer == "kubernetes.io/other"

ContainsString(strings, s) == \E i \in 1..Len(strings) : strings[i] = s

\* controllerutil.AddFinalizer / controllerutil.RemoveFinalizer
WithFinalizer(finalizers, f) ==
  IF ContainsString(finalizers, f) THEN finalizers ELSE Append(finalizers, f)
WithoutFinalizer(finalizers, f) == SelectSeq(finalizers, LAMBDA x : x # f)

\* AddFinalizer without its ContainsString guard.
AddFinalizerUnguarded(finalizers, patchOK) ==
  [object |-> WithFinalizer(finalizers, FinalizerName),
   patch |-> Some(WithFinalizer(finalizers, FinalizerName)),
   err |-> IF patchOK THEN NilErr ELSE <<"unable to add finalizer">> \o ErrPatch]

\* AddFinalizer putting the object back as it was when the Patch fails.
AddFinalizerRollback(finalizers, patchOK) ==
  IF ~ContainsString(finalizers, FinalizerName)
  THEN [object |-> IF patchOK THEN WithFinalizer(finalizers, FinalizerName)
                   ELSE finalizers,
        patch |-> Some(WithFinalizer(finalizers, FinalizerName)),
        err |-> IF patchOK THEN NilErr
                ELSE <<"unable to add finalizer">> \o ErrPatch]
  ELSE [object |-> finalizers, patch |-> None, err |-> NilErr]

\* AddFinalizer on an object with these finalizers, the Patch succeeding or
\* not: the object's finalizers on return, the patch sent (if any), the error.
AddFinalizer(finalizers, patchOK) ==
  IF ~ContainsString(finalizers, FinalizerName)
  THEN [object |-> WithFinalizer(finalizers, FinalizerName),
        patch |-> Some(WithFinalizer(finalizers, FinalizerName)),
        err |-> IF patchOK THEN NilErr
                ELSE Wrap("unable to add finalizer", ErrPatch)]
  ELSE [object |-> finalizers, patch |-> None, err |-> NilErr]

RemoveFinalizer(finalizers, patchOK) ==
  IF ContainsString(finalizers, FinalizerName)
  THEN [object |-> WithoutFinalizer(finalizers, FinalizerName),
        patch |-> Some(WithoutFinalizer(finalizers, FinalizerName)),
        err |-> IF patchOK THEN NilErr
                ELSE Wrap("unable to remove finalizer", ErrPatch)]
  ELSE [object |-> finalizers, patch |-> None, err |-> NilErr]

-----------------------------------------------------------------------------
(* ExternalStore: OpenShift Cluster Manager *)

\* Desired.Builder(DesiredCA, DesiredBindPassword): the identity provider that
\* Create and Update send.
Builder(d) ==
  [mappingMethod |-> d.MappingMethod, url |-> d.URL,
   ca |-> CAData(d.CAName), bindPassword |-> SecretData(d.BindPasswordName)]

EntityFields == {"mappingMethod", "url", "ca", "bindPassword"}

Entity(id, b) ==
  [id |-> id, mappingMethod |-> b.mappingMethod, url |-> b.url, ca |-> b.ca,
   bindPassword |-> b.bindPassword]

EmptyRemote == [k \in Keys |-> None]

OCMCreate(r, key, b) == [r EXCEPT ![key] = Some(Entity(ProviderIDOf(key[1]), b))]
OCMUpdate(r, key, b) ==
  [r EXCEPT ![key] = IF @ = None THEN @ ELSE Some(Entity(@[1].id, b))]
OCMDelete(r, clusterID, id) ==
  [k \in Keys |->
     IF k[2] = clusterID /\ r[k] # None /\ r[k][1].id = id THEN None ELSE r[k]]

-----------------------------------------------------------------------------
(* Request *)

\* Current.CopyFrom(idp.LDAP()): the LDAP settings of the remote entity.
CopyFrom(cur, entity) == [cur EXCEPT !.URL = entity.url]

\* request.desired(): Current is non-nil and equal to Desired.
DesiredState(d, cur) == cur # None /\ cur[1] = d

\* triggers.GetTrigger
GetTrigger(object) ==
  IF object.deleting THEN "Delete"
  ELSE IF object.status.providerID = "" THEN "Create"
  ELSE "Update"

NoCalls == [requestNotFound |-> 0, requestErr |-> 0, clusterGet |-> 0,
            get |-> 0, getErr |-> 0, create |-> 0, update |-> 0,
            writeErr |-> 0, delete |-> 0, deleteErr |-> 0, patch |-> 0,
            patchStatus |-> 0]

EmptyStatus == [conditions |-> <<>>, clusterID |-> "", providerID |-> ""]

NoObject == [spec |-> D0, deleting |-> FALSE, finalizers |-> <<>>,
             status |-> EmptyStatus]

StoredObject ==
  [spec |-> storeSpec, deleting |-> storeDeleting,
   finalizers |-> storeFinalizers, status |-> storeStatus]

storeVars == <<storeExists, storeSpec, storeDeleting, storeFinalizers, storeStatus>>
envVars == <<now, budget, fin, cnd>>

\* Collaborator failures: unlimited, or at most MaxFailures where they are
\* counted (the stores eventually stop failing).
MayFail == ~live.on \/ live.failures < MaxFailures
Charge(failed) ==
  live' = IF live.on /\ failed THEN [live EXCEPT !.failures = @ + 1] ELSE live

\* The runtime invokes Reconcile on a change of the object and again after
\* a pass that returned an error or a requeue; failed is whether this
\* invocation met a failure.
Notify == live' = IF live.on THEN [live EXCEPT !.pending = TRUE] ELSE live
Served(failed) ==
  live' = IF live.on
          THEN [live EXCEPT !.pending = FALSE,
                            !.failures = IF failed THEN @ + 1 ELSE @]
          ELSE live

\* Passes are bounded in number, or run as long as the runtime has a reason
\* to invoke one.
MayReconcile ==
  IF live.on
  THEN pc = "idle" \/ live.pending \/ err # NilErr \/ result.Requeue
  ELSE now < MaxPasses

\* The clock read by a pass.
Tick == now' = IF now < MaxPasses THEN now + 1 ELSE now

-----------------------------------------------------------------------------
(* controllers.go: Reconcile *)

\* The switch with the Update and Delete cases exchanged.
ReconcileSwitchSwapped(t) ==
  CASE t = "Create" -> "ReconcileCreate"
    [] t = "Update" -> "ReconcileDelete"
    [] t = "Delete" -> "ReconcileUpdate"
    [] OTHER -> "none"

\* The switch defaulting to Update.
ReconcileSwitchDefaultUpdate(t) ==
  CASE t = "Create" -> "ReconcileCreate"
    [] t = "Delete" -> "ReconcileDelete"
    [] OTHER -> "ReconcileUpdate"

\* The switch on trigger.String(): the handler Reconcile invokes, "none" for
\* the default branch.
ReconcileSwitch(t) ==
  CASE t = "Create" -> "ReconcileCreate"
    [] t = "Update" -> "ReconcileUpdate"
    [] t = "Delete" -> "ReconcileDelete"
    [] OTHER -> "none"

\* The phases each handler executes, in order.
Phases(h) ==
  CASE h \in {"ReconcileCreate", "ReconcileUpdate"} ->
         <<"Begin", "GetCurrentState", "ApplyIdentityProvider", "Complete">>
    [] h = "ReconcileDelete" -> <<"Begin", "Destroy", "CompleteDestroy">>
    [] OTHER -> <<>>

ResetRequest ==
  /\ current' = None
  /\ ocmClient' = None
  /\ idp' = None
  /\ phaseLog' = <<>>
  /\ calls' = NoCalls
  /\ events' = <<>>
  /\ patches' = <<>>
  /\ clusterLookup' = "none"

\* Reconcile once NewRequest has returned a request for the stored object and
\* the trigger is t.
Dispatch(t) ==
  LET h == ReconcileSwitch(t) IN
  /\ snapshot' = StoredObject
  /\ original' = StoredObject
  /\ desired' = storeSpec
  /\ trigger' = t
  /\ handler' = h
  /\ ResetRequest
  /\ IF h = "none"
     THEN /\ pc' = "done"
          /\ result' = NoRequeue
          /\ err' = ReconcileError("unable to determine controller trigger",
                                   ErrTriggerUnknown)
     ELSE /\ pc' = Phases(h)[1]
          /\ result' = NoRequeue
          /\ err' = NilErr

\* Reconcile asking for a retry when the object is not found.
NewRequestFailureRequeue(e) ==
  IF e = "notfound"
  THEN [result |-> RequeueAfter(defaultLDAPIdentityProviderRequeue), err |-> NilErr]
  ELSE [result |-> NoRequeue, err |-> <<"unable to create request">> \o ErrGet]

\* What Reconcile returns when NewRequest fails with e.
NewRequestFailure(e) ==
  [result |-> NoRequeue,
   err |-> IF e = "notfound" THEN NilErr
           ELSE Wrap("unable to create request", ErrGet)]

\* Reconcile when NewRequest fails: NotFound is not an error.
NoRequest(e) ==
  /\ snapshot' = NoObject
  /\ original' = NoObject
  /\ desired' = D0
  /\ trigger' = "none"
  /\ handler' = "none"
  /\ current' = None
  /\ ocmClient' = None
  /\ idp' = None
  /\ phaseLog' = <<>>
  /\ calls' = [NoCalls EXCEPT
                 !.requestNotFound = IF e = "notfound" THEN 1 ELSE 0,
                 !.requestErr = IF e = "notfound" THEN 0 ELSE 1]
  /\ events' = <<>>
  /\ patches' = <<>>
  /\ clusterLookup' = "none"
  /\ pc' = "done"
  /\ result' = NewRequestFailure(e).result
  /\ err' = NewRequestFailure(e).err

Reconcile ==
  /\ pc \in {"idle", "done"}
  /\ MayReconcile
  /\ Tick
  /\ \/ storeExists /\ Dispatch(GetTrigger(StoredObject)) /\ Served(FALSE)
     \/ storeExists /\ MayFail /\ NoRequest("error") /\ Served(TRUE)
     \/ ~storeExists /\ NoRequest("notfound") /\ Served(FALSE)
  /\ UNCHANGED <<storeVars, remote, hist, budget, fin, cnd>>

\* Reconcile on an object whose trigger is none of Create, Update, Delete.
ReconcileUnknownTrigger ==
  /\ pc \in {"idle", "done"}
  /\ MayReconcile
  /\ Tick
  /\ storeExists
  /\ Dispatch("Unknown")
  /\ UNCHANGED <<storeVars, remote, hist, budget, fin, cnd, live>>

-----------------------------------------------------------------------------
(* The phase executor: stop at the first error or requeue *)

NextPhase(h, name) ==
  LET ps == Phases(h)
      i == CHOOSE j \in 1..Len(ps) : ps[j] = name
  IN IF i < Len(ps) THEN ps[i + 1] ELSE "done"

Halts(res, e) == e # NilErr \/ res.Requeue

Execute(name, res, e) ==
  /\ phaseLog' = Append(phaseLog, [name |-> name, result |-> res, err |-> e])
  /\ IF Halts(res, e)
     THEN /\ pc' = "done"
          /\ result' = res
          /\ err' = e
     ELSE /\ pc' = NextPhase(handler, name)
          /\ result' = NoRequeue
          /\ err' = NilErr

\* request.updateCondition: set the condition on request.Original, then patch
\* the status against a copy taken before the change.
UpdateCondition(c, ok) ==
  LET mutated == [original.status EXCEPT !.conditions = SetCondition(@, c)] IN
  /\ original' = [original EXCEPT !.status = mutated]
  /\ storeStatus' = IF ok THEN PatchStatus(original.status, mutated, storeStatus)
                    ELSE storeStatus
  /\ patches' = Append(patches, [phase |-> pc, base |-> original.status,
                                 mutated |-> mutated, ok |-> ok])

-----------------------------------------------------------------------------
(* phases.go: the phases *)

Outcome(res, e) == [result |-> res, err |-> e]

BeginOutcome(ok) ==
  IF ~ok
  THEN Outcome(RequeueAfter(defaultLDAPIdentityProviderRequeue),
               Wrap("error updating reconciling condition", ErrPatch))
  ELSE Outcome(NoRequeue, NilErr)

Begin ==
  /\ pc = "Begin"
  /\ \E ok \in BOOLEAN :
       /\ ok \/ MayFail
       /\ Charge(~ok)
       /\ UpdateCondition(Reconciling(trigger, now), ok)
       /\ calls' = [calls EXCEPT !.patchStatus = @ + 1]
       /\ Execute("Begin", BeginOutcome(ok).result, BeginOutcome(ok).err)
  /\ UNCHANGED <<storeExists, storeSpec, storeDeleting, storeFinalizers, remote,
                 trigger, handler, snapshot, desired, current, ocmClient, idp,
                 events, clusterLookup, hist, envVars>>

\* GetCurrentState returning no requeue with the error of a failed Get.
GetCurrentStateOutcomeNoRequeue(cluster, get, found, patchOK) ==
  IF cluster = "err"
  THEN [result |-> RequeueAfter(defaultLDAPIdentityProviderRequeue),
        err |-> <<"unable to retrieve cluster from ocm">> \o ErrOCM]
  ELSE IF cluster = "empty"
  THEN [result |-> RequeueAfter(defaultLDAPIdentityProviderRequeue),
        err |-> <<"missing cluster id in response">> \o ErrMissingClusterID]
  ELSE IF get = "err"
  THEN [result |-> NoRequeue,
        err |-> <<"unable to retrieve identity provider from ocm">> \o ErrOCM]
  ELSE IF ~found
  THEN [result |-> NoRequeue, err |-> NilErr]
  ELSE IF ~patchOK
  THEN [result |-> RequeueAfter(defaultLDAPIdentityProviderRequeue),
        err |-> <<"unable to update status.providerID">> \o ErrPatch]
  ELSE [result |-> NoRequeue, err |-> NilErr]

\* GetCurrentState asking for a retry when the identity provider is not found.
GetCurrentStateOutcomeNotFoundRequeue(cluster, get, found, patchOK) ==
  IF cluster \in {"err", "empty"} \/ get = "err" \/ (found /\ ~patchOK)
  THEN [result |-> RequeueAfter(defaultLDAPIdentityProviderRequeue),
        err |-> <<"unable to get current state">> \o ErrOCM]
  ELSE IF ~found
  THEN [result |-> RequeueAfter(defaultLDAPIdentityProviderRequeue), err |-> NilErr]
  ELSE [result |-> NoRequeue, err |-> NilErr]

\* GetCurrentState going on with an empty cluster id.
GetCurrentStateOutcomeEmptyOK(cluster, get, found, patchOK) ==
  IF cluster = "err" \/ get = "err" \/ (found /\ ~patchOK)
  THEN [result |-> RequeueAfter(defaultLDAPIdentityProviderRequeue),
        err |-> <<"unable to get current state">> \o ErrOCM]
  ELSE [result |-> NoRequeue, err |-> NilErr]

\* GetCurrentState going on without Current when its status patch failed.
GetCurrentStateOutcomePatchIgnored(cluster, get, found, patchOK) ==
  IF cluster \in {"err", "empty"} \/ get = "err"
  THEN [result |-> RequeueAfter(defaultLDAPIdentityProviderRequeue),
        err |-> <<"unable to get current state">> \o ErrOCM]
  ELSE [result |-> NoRequeue, err |-> NilErr]

\* What GetCurrentState returns: cluster is the outcome of the cluster lookup
\* ("skip" when the status already holds the id), get that of OCMClient.Get,
\* found whether it returned an entity, patchOK that of PatchStatus.
GetCurrentStateOutcome(cluster, get, found, patchOK) ==
  IF cluster = "err"
  THEN Outcome(RequeueAfter(defaultLDAPIdentityProviderRequeue),
               Wrap("unable to retrieve cluster from ocm", ErrOCM))
  ELSE IF cluster = "empty"
  THEN Outcome(RequeueAfter(defaultLDAPIdentityProviderRequeue),
               Wrap("missing cluster id in response", ErrMissingClusterID))
  ELSE IF get = "err"
  THEN Outcome(RequeueAfter(defaultLDAPIdentityProviderRequeue),
               Wrap("unable to retrieve identity provider from ocm", ErrOCM))
  ELSE IF ~found
  THEN Outcome(NoRequeue, NilErr)
  ELSE IF ~patchOK
  THEN Outcome(RequeueAfter(defaultLDAPIdentityProviderRequeue),
               Wrap("unable to update status.providerID", ErrPatch))
  ELSE Outcome(NoRequeue, NilErr)

\* Current built without the entity's LDAP settings.
CurrentFromNoCopy(d, entity) ==
  [ClusterName |-> d.ClusterName,
   DisplayName |-> d.DisplayName,
   BindPasswordName |-> d.BindPasswordName,
   CAName |-> d.CAName,
   MappingMethod |-> entity.mappingMethod,
   URL |-> ""]

\* request.Current as GetCurrentState builds it from Desired and the entity.
CurrentFrom(d, entity) ==
  CopyFrom([ClusterName |-> d.ClusterName,
            DisplayName |-> d.DisplayName,
            BindPasswordName |-> d.BindPasswordName,
            CAName |-> d.CAName,
            MappingMethod |-> entity.mappingMethod,
            URL |-> ""], entity)

\* GetCurrentState storing the current state into the Desired object itself
\* (request.Current aliasing request.Desired).
StoreCurrentAliased(d, entity) ==
  [current |-> CopyFrom([d EXCEPT !.MappingMethod = entity.mappingMethod], entity),
   desired |-> CopyFrom([d EXCEPT !.MappingMethod = entity.mappingMethod], entity)]

\* "store the current state": request.Current becomes a fresh object filled
\* from Desired and the entity; request.Desired is only read.
StoreCurrent(d, entity) ==
  [current |-> CurrentFrom(d, entity), desired |-> d]

\* The status patch of GetCurrentState taken against the start-of-run object.
GetCurrentStateBaseSnapshot == snapshot.status

\* original := request.Original.DeepCopy(): the base of the status patch of
\* GetCurrentState, copied when the phase reaches it.
GetCurrentStateBase == original.status

GetCurrentState ==
  /\ pc = "GetCurrentState"
  /\ \E cluster \in (IF original.status.clusterID = ""
                      THEN {"ok", "err", "empty"} ELSE {"skip"}),
        get \in {"ok", "err"}, patchOK \in BOOLEAN :
       LET clusterID == IF original.status.clusterID = ""
                        THEN ClusterIDOf(desired.ClusterName)
                        ELSE original.status.clusterID
           key == <<desired.DisplayName, clusterID>>
           looked == cluster \in {"ok", "skip"}
           got == looked /\ get = "ok"
           found == got /\ remote[key] # None
           mutated == [original.status EXCEPT !.clusterID = clusterID,
                                              !.providerID = remote[key][1].id]
           out == GetCurrentStateOutcome(cluster, get, found, patchOK)
           failed == \/ cluster \in {"err", "empty"}
                     \/ looked /\ get = "err"
                     \/ found /\ ~patchOK
       IN
       /\ failed => MayFail
       /\ Charge(failed)
       /\ clusterLookup' = cluster
       /\ patches' = IF found
                     THEN Append(patches, [phase |-> pc, base |-> GetCurrentStateBase,
                                           mutated |-> mutated, ok |-> patchOK])
                     ELSE patches
       /\ ocmClient' = IF looked THEN Some(key) ELSE ocmClient
       /\ idp' = IF got THEN remote[key] ELSE idp
       /\ calls' = [calls EXCEPT
                      !.clusterGet = IF cluster = "skip" THEN @ ELSE @ + 1,
                      !.get = IF looked THEN @ + 1 ELSE @,
                      !.getErr = IF looked /\ get = "err" THEN @ + 1 ELSE @,
                      !.patchStatus = IF found THEN @ + 1 ELSE @]
       /\ original' = IF found THEN [original EXCEPT !.status = mutated]
                      ELSE original
       /\ storeStatus' = IF found /\ patchOK
                         THEN PatchStatus(GetCurrentStateBase, mutated, storeStatus)
                         ELSE storeStatus
       /\ current' = IF found /\ patchOK
                     THEN Some(StoreCurrent(desired, remote[key][1]).current)
                     ELSE current
       /\ desired' = IF found /\ patchOK
                     THEN StoreCurrent(desired, remote[key][1]).desired
                     ELSE desired
       /\ Execute("GetCurrentState", out.result, out.err)
  /\ UNCHANGED <<storeExists, storeSpec, storeDeleting, storeFinalizers, remote,
                 trigger, handler, snapshot, events, hist, envVars>>

\* ApplyIdentityProvider without its early return.
ApplyActionAlways(d, cur) == IF cur = None THEN "create" ELSE "update"

\* What ApplyIdentityProvider does: nothing when already in the desired state,
\* Create when Current is nil, Update otherwise.
ApplyAction(d, cur) ==
  IF DesiredState(d, cur) THEN "none"
  ELSE IF cur = None THEN "create"
  ELSE "update"

ApplyOutcome(action, ok) ==
  IF action = "none" THEN Outcome(NoRequeue, NilErr)
  ELSE IF action = "create"
  THEN IF ~ok
       THEN Outcome(RequeueAfter(defaultLDAPIdentityProviderRequeue),
                    Wrap("unable to create ldap identity provider in ocm", ErrOCM))
       ELSE Outcome(NoRequeue, NilErr)
  ELSE IF ~ok
       THEN Outcome(RequeueAfter(defaultLDAPIdentityProviderRequeue),
                    Wrap("unable to update ldap identity provider in ocm", ErrOCM))
       ELSE Outcome(NoRequeue, NilErr)

\* ApplyIdentityProvider recording its event whatever the write returned.
ApplyEventsAlways(action, ok) ==
  IF action = "create" THEN <<"Created">>
  ELSE IF action = "update" THEN <<"Updated">>
  ELSE <<>>

\* The audit events of ApplyIdentityProvider: one after a write that
\* returned without error, none otherwise.
ApplyEvents(action, ok) ==
  IF action = "create" /\ ok THEN <<"Created">>
  ELSE IF action = "update" /\ ok THEN <<"Updated">>
  ELSE <<>>

ApplyIdentityProvider ==
  /\ pc = "ApplyIdentityProvider"
  /\ \E ok \in BOOLEAN :
       LET action == ApplyAction(desired, current)
           key == ocmClient[1]
           out == ApplyOutcome(action, ok)
           failed == action # "none" /\ ~ok
       IN
       /\ failed => MayFail
       /\ Charge(failed)
       /\ calls' = [calls EXCEPT
                      !.create = IF action = "create" THEN @ + 1 ELSE @,
                      !.update = IF action = "update" THEN @ + 1 ELSE @,
                      !.writeErr = IF failed THEN @ + 1 ELSE @]
       /\ remote' = IF action = "create" /\ ok
                    THEN OCMCreate(remote, key, Builder(desired))
                    ELSE IF action = "update" /\ ok
                    THEN OCMUpdate(remote, key, Builder(desired))
                    ELSE remote
       /\ events' = events \o ApplyEvents(action, ok)
       \* a Create for a key that already has an entity leaves two of them
       /\ hist' = IF action = "create" /\ ok
                  THEN [hist EXCEPT
                          !.createdAt = IF @ = 0 THEN now ELSE @,
                          !.createdFrom = IF hist.createdAt = 0 THEN desired ELSE @,
                          !.duplicate = @ \/ remote[key] # None]
                  ELSE hist
       /\ Execute("ApplyIdentityProvider", out.result, out.err)
  /\ UNCHANGED <<storeVars, trigger, handler, original, snapshot, desired,
                 current, ocmClient, idp, patches, clusterLookup, envVars>>

\* Destroy without its guard.
AlreadyDeletedNever(conditions) == FALSE

\* The guard of Destroy: the deleted condition is already on request.Original.
AlreadyDeleted(conditions) == IsSet(IdentityProviderDeleted(0), conditions)

\* The condition Destroy sets once the remote delete has succeeded.
DestroyCondition(t) == MachinePoolDeleted(t)

\* Destroy going on after a failed remote delete.
DestroyOutcomeIgnoreFailure(already, deleteOK, patchOK) ==
  IF already \/ ~deleteOK THEN [result |-> NoRequeue, err |-> NilErr]
  ELSE IF ~patchOK
  THEN [result |-> RequeueAfter(defaultLDAPIdentityProviderRequeue),
        err |-> <<"error updating reconciling condition">> \o ErrPatch]
  ELSE [result |-> NoRequeue, err |-> NilErr]

DestroyOutcome(already, deleteOK, patchOK) ==
  IF already THEN Outcome(NoRequeue, NilErr)
  ELSE IF ~deleteOK
  THEN Outcome(RequeueAfter(defaultLDAPIdentityProviderRequeue), NilErr)
  ELSE IF ~patchOK
  THEN Outcome(RequeueAfter(defaultLDAPIdentityProviderRequeue),
               Wrap("error updating reconciling condition", ErrPatch))
  ELSE Outcome(NoRequeue, NilErr)

Destroy ==
  /\ pc = "Destroy"
  /\ \E deleteOK \in BOOLEAN, patchOK \in BOOLEAN :
       LET already == AlreadyDeleted(original.status.conditions)
           deleted == ~already /\ deleteOK
           out == DestroyOutcome(already, deleteOK, patchOK)
           failed == (~already /\ ~deleteOK) \/ (deleted /\ ~patchOK)
       IN
       /\ failed => MayFail
       /\ Charge(failed)
       /\ calls' = [calls EXCEPT
                      !.delete = IF already THEN @ ELSE @ + 1,
                      !.deleteErr = IF already \/ deleteOK THEN @ ELSE @ + 1,
                      !.patchStatus = IF deleted THEN @ + 1 ELSE @]
       /\ remote' = IF deleted
                    THEN OCMDelete(remote, original.status.clusterID,
                                   original.status.providerID)
                    ELSE remote
       /\ events' = IF deleted THEN Append(events, "Deleted") ELSE events
       /\ IF deleted
          THEN UpdateCondition(DestroyCondition(now), patchOK)
          ELSE UNCHANGED <<original, storeStatus, patches>>
       /\ hist' = IF deleted /\ patchOK /\ hist.deletedAt = 0
                  THEN [hist EXCEPT !.deletedAt = now]
                  ELSE hist
       /\ Execute("Destroy", out.result, out.err)
  /\ UNCHANGED <<storeExists, storeSpec, storeDeleting, storeFinalizers,
                 trigger, handler, snapshot, desired, current, ocmClient, idp,
                 clusterLookup, envVars>>

\* Complete ending the pass without a steady-state requeue.
CompleteOutcomeNoRequeue(ok) ==
  IF ~ok
  THEN Outcome(RequeueAfter(defaultLDAPIdentityProviderRequeue),
               Wrap("error updating reconciled condition", ErrPatch))
  ELSE Outcome(NoRequeue, NilErr)

CompleteOutcome(ok) ==
  IF ~ok
  THEN Outcome(RequeueAfter(defaultLDAPIdentityProviderRequeue),
               Wrap("error updating reconciled condition", ErrPatch))
  ELSE Outcome(RequeueAfter(Interval), NilErr)

Complete ==
  /\ pc = "Complete"
  /\ \E ok \in BOOLEAN :
       /\ ok \/ MayFail
       /\ Charge(~ok)
       /\ UpdateCondition(Reconciled(trigger, now), ok)
       /\ calls' = [calls EXCEPT !.patchStatus = @ + 1]
       /\ Execute("Complete", CompleteOutcome(ok).result, CompleteOutcome(ok).err)
  /\ UNCHANGED <<storeExists, storeSpec, storeDeleting, storeFinalizers, remote,
                 trigger, handler, snapshot, desired, current, ocmClient, idp,
                 events, clusterLookup, hist, envVars>>

\* CompleteDestroy ending the pass quietly when the finalizer patch failed.
CompleteDestroyOutcomeSwallow(e) == Outcome(NoRequeue, NilErr)

CompleteDestroyOutcome(e) ==
  IF e # NilErr
  THEN Outcome(RequeueAfter(defaultLDAPIdentityProviderRequeue),
               Wrap("unable to remove finalizers", e))
  ELSE Outcome(NoRequeue, NilErr)

CompleteDestroy ==
  /\ pc = "CompleteDestroy"
  /\ \E ok \in BOOLEAN :
       LET r == RemoveFinalizer(original.finalizers, ok)
           applied == r.patch # None /\ ok
           out == CompleteDestroyOutcome(r.err)
       IN
       /\ r.err = NilErr \/ MayFail
       /\ IF applied /\ storeDeleting /\ r.patch[1] = <<>>
          THEN Notify
          ELSE Charge(r.err # NilErr)
       /\ original' = [original EXCEPT !.finalizers = r.object]
       /\ calls' = [calls EXCEPT !.patch = IF r.patch # None THEN @ + 1 ELSE @]
       /\ storeFinalizers' = IF applied THEN r.patch[1] ELSE storeFinalizers
       \* the object store removes a deleted object with its last finalizer
       /\ storeExists' = IF applied /\ storeDeleting /\ r.patch[1] = <<>>
                         THEN FALSE ELSE storeExists
       /\ Execute("CompleteDestroy", out.result, out.err)
  /\ UNCHANGED <<storeSpec, storeDeleting, storeStatus, remote, trigger,
                 handler, snapshot, desired, current, ocmClient, idp, events,
                 patches, clusterLookup, hist, envVars>>

-----------------------------------------------------------------------------
(* The environment, between passes *)

passVars == <<pc, trigger, handler, original, snapshot, desired, current,
              ocmClient, idp, phaseLog, calls, events, patches, clusterLookup,
              result, err>>

\* A user edits one field of the spec.
EditSpec ==
  /\ pc \in {"idle", "done"}
  /\ storeExists
  /\ budget.edits + budget.drifts < MaxChanges
  /\ \E f \in SpecFields : \E v \in FieldValues(f) \ {storeSpec[f]} :
       storeSpec' = [storeSpec EXCEPT ![f] = v]
  /\ budget' = [budget EXCEPT !.edits = @ + 1]
  /\ Notify
  /\ UNCHANGED <<storeExists, storeDeleting, storeFinalizers, storeStatus,
                 remote, passVars, now, hist, fin, cnd>>

\* A user deletes the object: it goes at once when it has no finalizer.
RequestDeletion ==
  /\ pc \in {"idle", "done"}
  /\ storeExists
  /\ ~storeDeleting
  /\ IF storeFinalizers = <<>>
     THEN storeExists' = FALSE /\ UNCHANGED storeDeleting
     ELSE storeDeleting' = TRUE /\ UNCHANGED storeExists
  /\ Notify
  /\ UNCHANGED <<storeSpec, storeFinalizers, storeStatus, remote, passVars,
                 now, hist, budget, fin, cnd>>

EntityValues(f) ==
  CASE f = "mappingMethod" -> MappingMethods
    [] f = "url" -> URLs
    [] f = "ca" -> {CAData(n) : n \in CANames}
    [] f = "bindPassword" -> {SecretData(n) : n \in SecretNames}

\* Someone changes one field of the identity provider in the external system.
RemoteDrift ==
  /\ pc \in {"idle", "done"}
  /\ budget.edits + budget.drifts < MaxChanges
  /\ \E k \in Keys : \E f \in EntityFields :
       /\ remote[k] # None
       /\ \E v \in EntityValues(f) \ {remote[k][1][f]} :
            remote' = [remote EXCEPT ![k] = Some([@[1] EXCEPT ![f] = v])]
  /\ budget' = [budget EXCEPT !.drifts = @ + 1]
  /\ UNCHANGED <<storeVars, passVars, now, hist, fin, cnd, live>>

-----------------------------------------------------------------------------
(* Direct calls of the finalizer helpers on one object *)

FinalizerLists == {<<>>, <<FinalizerName>>, <<OtherFinalizer>>,
                   <<OtherFinalizer, FinalizerName>>}

FinIdle == [object |-> <<>>, store |-> <<>>, log |-> <<>>]

FinCall(op, r, ok) ==
  /\ Len(fin.log) < MaxFinCalls
  /\ fin' = [object |-> r.object,
             store |-> IF r.patch # None /\ ok THEN r.patch[1] ELSE fin.store,
             log |-> Append(fin.log,
                            [op |-> op, before |-> fin.object,
                             after |-> r.object,
                             patched |-> r.patch # None,
                             patchOK |-> ok,
                             storeBefore |-> fin.store,
                             storeAfter |-> IF r.patch # None /\ ok
                                            THEN r.patch[1] ELSE fin.store,
                             err |-> r.err])]
  /\ UNCHANGED <<storeVars, remote, passVars, now, hist, budget, cnd, live>>

CallAddFinalizer ==
  \E ok \in BOOLEAN : FinCall("AddFinalizer", AddFinalizer(fin.object, ok), ok)

CallRemoveFinalizer ==
  \E ok \in BOOLEAN : FinCall("RemoveFinalizer", RemoveFinalizer(fin.object, ok), ok)

-----------------------------------------------------------------------------
(* Specifications *)

InitRequest ==
  /\ pc = "idle"
  /\ trigger = "none"
  /\ handler = "none"
  /\ original = NoObject
  /\ snapshot = NoObject
  /\ desired = D0
  /\ current = None
  /\ ocmClient = None
  /\ idp = None
  /\ phaseLog = <<>>
  /\ calls = NoCalls
  /\ events = <<>>
  /\ patches = <<>>
  /\ clusterLookup = "none"
  /\ result = NoRequeue
  /\ err = NilErr
  /\ now = 0
  /\ hist = [deletedAt |-> 0, createdAt |-> 0, createdFrom |-> D0,
             duplicate |-> FALSE]
  /\ budget = [edits |-> 0, drifts |-> 0]

D0Key == <<D0.DisplayName, ClusterIDOf(D0.ClusterName)>>

\* The stored object and the external system as a pass may find them.
InitObjects ==
  /\ InitRequest
  /\ fin = FinIdle
  /\ cnd = <<>>
  /\ storeExists = TRUE
  /\ storeSpec = D0
  /\ storeDeleting = FALSE
  /\ storeFinalizers \in {<<>>, <<FinalizerName>>, <<OtherFinalizer, FinalizerName>>}
  /\ remote \in {EmptyRemote, OCMCreate(EmptyRemote, D0Key, Builder(D0))}
  /\ \E conds \in {<<>>, <<IdentityProviderDeleted(0)>>} :
     \E known \in BOOLEAN :
       /\ known => remote[D0Key] # None
       /\ storeStatus =
            [conditions |-> conds,
             clusterID |-> IF known THEN D0Key[2] ELSE "",
             providerID |-> IF known THEN ProviderIDOf(D0Key[1]) ELSE ""]

NoLive == [on |-> FALSE, failures |-> 0, pending |-> FALSE]

Init == InitObjects /\ live = NoLive

Next ==
  \/ Reconcile
  \/ Begin
  \/ GetCurrentState
  \/ ApplyIdentityProvider
  \/ Complete
  \/ Destroy
  \/ CompleteDestroy
  \/ EditSpec
  \/ RequestDeletion
  \/ RemoteDrift

Spec == Init /\ [][Next]_vars

\* The loop, with Reconcile also run on objects whose trigger is unknown.
NextAnyTrigger == Next \/ ReconcileUnknownTrigger

SpecAnyTrigger == Init /\ [][NextAnyTrigger]_vars

\* The finalizer helpers called directly, in any order, on one object.
InitFin ==
  /\ InitRequest
  /\ cnd = <<>>
  /\ live = NoLive
  /\ storeExists = TRUE
  /\ storeSpec = D0
  /\ storeDeleting = FALSE
  /\ storeFinalizers = <<>>
  /\ storeStatus = EmptyStatus
  /\ remote = EmptyRemote
  /\ \E f \in FinalizerLists : fin = [object |-> f, store |-> f, log |-> <<>>]

NextFin == CallAddFinalizer \/ CallRemoveFinalizer

SpecFin == InitFin /\ [][NextFin]_vars

-----------------------------------------------------------------------------
(* Properties *)

Ran(name) == \E i \in 1..Len(phaseLog) : phaseLog[i].name = name

\* Every run of the phase returned exactly this.
Returned(name, res, e) ==
  \A i \in 1..Len(phaseLog) :
    phaseLog[i].name = name => phaseLog[i].result = res /\ phaseLog[i].err = e

Recorded(event) == \E i \in 1..Len(events) : events[i] = event

DeletePass == handler = "ReconcileDelete"
ApplyPass == handler \in {"ReconcileCreate", "ReconcileUpdate"}

DeletedAtStart == IsSet(IdentityProviderDeleted(0), snapshot.status.conditions)
FinalizerAtStart == ContainsString(snapshot.finalizers, FinalizerName)

\* C1: in a Delete pass on an object that already carries the deleted
\* condition with status True, Destroy calls ExternalStore.Delete zero times
\* and returns (NoRequeue, nil), the pass goes on to CompleteDestroy, and
\* CompleteDestroy issues exactly one finalizer patch when the finalizer is
\* present.
C1_DeletedSkipsRemoteDelete ==
  (DeletePass /\ DeletedAtStart) =>
    /\ calls.delete = 0
    /\ Returned("Destroy", NoRequeue, NilErr)
    /\ Ran("Destroy") => (pc = "CompleteDestroy" \/ Ran("CompleteDestroy"))
    /\ (Ran("CompleteDestroy") /\ FinalizerAtStart) => calls.patch = 1

C1_Witness ==
  /\ DeletePass
  /\ DeletedAtStart
  /\ FinalizerAtStart
  /\ Ran("CompleteDestroy")
  /\ calls.delete = 0
  /\ calls.patch = 1

\* C2: once a pass has called ExternalStore.Delete successfully and
\* persisted the condition Destroy sets on success, no later Delete pass
\* calls ExternalStore.Delete again.
C2_NoRepeatedRemoteDelete ==
  (DeletePass /\ hist.deletedAt # 0 /\ hist.deletedAt < now) => calls.delete = 0

\* C3: in a Delete pass the finalizer patch is issued only if
\* ExternalStore.Delete succeeded in that pass or the deleted condition was
\* already True; when ExternalStore.Delete failed, or persisting the
\* condition failed, no finalizer patch is issued and the finalizer stays on
\* the stored object.
C3_FinalizerOnlyAfterCleanup ==
  DeletePass =>
    /\ calls.patch > 0 => (Recorded("Deleted") \/ DeletedAtStart)
    /\ ((calls.delete > 0 /\ ~Recorded("Deleted"))
          \/ (\E i \in 1..Len(phaseLog) :
                phaseLog[i].name = "Destroy" /\ phaseLog[i].err # NilErr))
       => /\ calls.patch = 0
          /\ ~Ran("CompleteDestroy")
          /\ storeFinalizers = snapshot.finalizers

C3_Witness ==
  /\ DeletePass
  /\ pc = "done"
  /\ calls.delete = 1
  /\ ~Recorded("Deleted")
  /\ calls.patch = 0
  /\ ContainsString(storeFinalizers, FinalizerName)

\* The spec a remote entity under a natural key realises.
RemoteSpec(key, entity) ==
  [ClusterName |-> CHOOSE n \in ClusterNames : ClusterIDOf(n) = key[2],
   DisplayName |-> key[1],
   BindPasswordName |-> entity.bindPassword[2],
   CAName |-> entity.ca[2],
   MappingMethod |-> entity.mappingMethod,
   URL |-> entity.url]

Drift(d, key, entity) == {f \in SpecFields : d[f] # RemoteSpec(key, entity)[f]}

\* C4: when Current is non-nil and equal to Desired, ApplyIdentityProvider
\* calls neither ExternalStore.Create nor ExternalStore.Update and returns
\* (NoRequeue, nil).
C4_IdempotentApply ==
  (Ran("ApplyIdentityProvider") /\ current # None /\ current[1] = desired) =>
    /\ calls.create = 0
    /\ calls.update = 0
    /\ Returned("ApplyIdentityProvider", NoRequeue, NilErr)

C4_Witness ==
  /\ Ran("ApplyIdentityProvider")
  /\ current = Some(desired)
  /\ idp # None
  /\ Drift(desired, ocmClient[1], idp[1]) = {}
  /\ calls.create = 0
  /\ calls.update = 0

\* The entity Create stored for the Desired of an earlier pass is what Get
\* returned in this pass, and Desired is unchanged.
FoundAsCreated ==
  /\ hist.createdAt # 0
  /\ hist.createdAt < now
  /\ desired = hist.createdFrom
  /\ idp = Some(Entity(ProviderIDOf(desired.DisplayName), Builder(desired)))

\* C5: a pass that finds no remote entity calls Create exactly once and
\* Update never; a later pass on the unchanged Desired that finds the entity
\* created from it calls neither Create nor Update.
C5_CreateThenMatch ==
  ApplyPass =>
    /\ (Ran("ApplyIdentityProvider") /\ current = None)
         => (calls.create = 1 /\ calls.update = 0)
    /\ (~Ran("ApplyIdentityProvider") /\ current = None)
         => (calls.create = 0 /\ calls.update = 0)
    /\ FoundAsCreated => (calls.create = 0 /\ calls.update = 0)

C5_Witness ==
  /\ ApplyPass
  /\ FoundAsCreated
  /\ Ran("ApplyIdentityProvider")
  /\ remote[ocmClient[1]] = idp
  /\ calls.create = 0
  /\ calls.update = 0

\* C6: when the remote entity exists and differs from Desired in exactly one
\* spec field, whichever it is, ApplyIdentityProvider calls Update exactly
\* once and Create never.
C6_DriftTriggersUpdate ==
  (/\ Ran("ApplyIdentityProvider")
   /\ idp # None
   /\ Cardinality(Drift(desired, ocmClient[1], idp[1])) = 1)
    => (calls.update = 1 /\ calls.create = 0)

FinLog(i) == fin.log[i]
Occurrences(strings, s) == Cardinality({i \in 1..Len(strings) : strings[i] = s})

\* C7: two AddFinalizer calls in sequence on an object that lacks the token
\* issue exactly one Patch and leave the token once in the finalizer set;
\* RemoveFinalizer on an object without the token issues no Patch and
\* returns nil.
C7_FinalizerIdempotence ==
  /\ \A i \in 1..(Len(fin.log) - 1) :
       (/\ FinLog(i).op = "AddFinalizer"
        /\ FinLog(i + 1).op = "AddFinalizer"
        /\ ~ContainsString(FinLog(i).before, FinalizerName))
         => /\ FinLog(i).patched
            /\ ~FinLog(i + 1).patched
            /\ FinLog(i + 1).err = NilErr
            /\ Occurrences(FinLog(i + 1).after, FinalizerName) = 1
  /\ \A i \in 1..Len(fin.log) :
       (/\ FinLog(i).op = "RemoveFinalizer"
        /\ ~ContainsString(FinLog(i).before, FinalizerName))
         => (~FinLog(i).patched /\ FinLog(i).err = NilErr)

C7_Witness ==
  /\ Len(fin.log) = 3
  /\ FinLog(1).op = "RemoveFinalizer"
  /\ ~ContainsString(FinLog(1).before, FinalizerName)
  /\ FinLog(2).op = "AddFinalizer"
  /\ FinLog(3).op = "AddFinalizer"
  /\ FinLog(2).patched
  /\ ~FinLog(3).patched
  /\ fin.object = <<OtherFinalizer, FinalizerName>>

\* errors.Is(e, triggers.ErrTriggerUnknown)
WrapsTriggerUnknown(e) ==
  /\ Len(e) >= Len(ErrTriggerUnknown)
  /\ SubSeq(e, Len(e) - Len(ErrTriggerUnknown) + 1, Len(e)) = ErrTriggerUnknown

\* C8: for every combination of deletion marker and recorded identifier the
\* trigger is one of Create, Update, Delete: Delete when the deletion marker
\* is present, otherwise Create when no identifier is recorded, otherwise
\* Update; Reconcile invokes exactly the matching handler and returns no
\* classification error.
C8_TriggerClassification ==
  trigger # "none" =>
    /\ trigger \in {"Create", "Update", "Delete"}
    /\ snapshot.deleting => trigger = "Delete"
    /\ (~snapshot.deleting /\ snapshot.status.providerID = "") => trigger = "Create"
    /\ (~snapshot.deleting /\ snapshot.status.providerID # "") => trigger = "Update"
    /\ trigger = "Create" => handler = "ReconcileCreate"
    /\ trigger = "Update" => handler = "ReconcileUpdate"
    /\ trigger = "Delete" => handler = "ReconcileDelete"
    /\ ~WrapsTriggerUnknown(err)

C8_Witness ==
  /\ snapshot.deleting
  /\ snapshot.status.providerID # ""
  /\ trigger = "Delete"
  /\ handler = "ReconcileDelete"
  /\ Ran("Begin")

\* C9: when the trigger is none of Create, Update, Delete, Reconcile invokes
\* no handler, no phase runs, and it returns an error wrapping
\* ErrTriggerUnknown with a result that asks for no requeue.
C9_UnknownTriggerIsFatal ==
  (trigger \notin {"Create", "Update", "Delete", "none"}) =>
    /\ handler = "none"
    /\ phaseLog = <<>>
    /\ calls = NoCalls
    /\ pc = "done"
    /\ err # NilErr
    /\ WrapsTriggerUnknown(err)
    /\ result = NoRequeue

C9_Witness ==
  /\ trigger = "Unknown"
  /\ pc = "done"
  /\ handler = "none"
  /\ err # NilErr

GetFailed(i) ==
  /\ phaseLog[i].name = "GetCurrentState"
  /\ phaseLog[i].err = Wrap("unable to retrieve identity provider from ocm", ErrOCM)

ReconciledOf(conditions) == SelectSeq(conditions, LAMBDA c : c.type = "Reconciled")

\* C10: a phase that returns an error returns RequeueAfter(30s) with it and
\* is the last phase of its pass; when ExternalStore.Get fails in
\* GetCurrentState, the pass calls neither Create nor Update and sets no
\* Reconciled condition.
C10_PhaseErrorHaltsWithRequeue ==
  \A i \in 1..Len(phaseLog) :
    /\ phaseLog[i].err # NilErr =>
         /\ phaseLog[i].result = RequeueAfter(defaultLDAPIdentityProviderRequeue)
         /\ phaseLog[i].result.RequeueAfter = 30
         /\ i = Len(phaseLog)
         /\ pc = "done"
         /\ result = phaseLog[i].result
         /\ err = phaseLog[i].err
    /\ GetFailed(i) =>
         /\ calls.create = 0
         /\ calls.update = 0
         /\ ~Ran("ApplyIdentityProvider")
         /\ ~Ran("Complete")
         /\ ReconciledOf(original.status.conditions)
              = ReconciledOf(snapshot.status.conditions)
         /\ ReconciledOf(storeStatus.conditions)
              = ReconciledOf(snapshot.status.conditions)

C10_Witness ==
  /\ pc = "done"
  /\ Len(phaseLog) = 2
  /\ GetFailed(2)
  /\ calls.get = 1
  /\ result = RequeueAfter(defaultLDAPIdentityProviderRequeue)

-----------------------------------------------------------------------------
(* Conditions of a Create/Update pass *)

Succeeded(i, name) ==
  /\ Len(phaseLog) >= i
  /\ phaseLog[i] = [name |-> name, result |-> NoRequeue, err |-> NilErr]

Wrote(phase, type) ==
  \E i \in 1..Len(patches) :
    /\ patches[i].phase = phase
    /\ \E j \in 1..Len(patches[i].mutated.conditions) :
         /\ patches[i].mutated.conditions[j].type = type
         /\ patches[i].mutated.conditions[j].status = "True"

ExternalCalls == calls.clusterGet + calls.get + calls.create + calls.update

\* C11: in a Create/Update pass the Reconciled condition is written only by
\* Complete, after Begin, GetCurrentState and ApplyIdentityProvider each
\* returned (NoRequeue, nil) in that pass; Reconciling is written by Begin
\* before any external call of the pass; a successful Complete returns
\* RequeueAfter(Interval) with a nil error.
C11_ReconciledOnlyAtCompletion ==
  ApplyPass =>
    /\ \A i \in 1..Len(patches) :
         /\ patches[i].phase \in {"Begin", "GetCurrentState", "Complete"}
         /\ ReconciledOf(patches[i].mutated.conditions)
              # ReconciledOf(patches[i].base.conditions)
              => patches[i].phase = "Complete"
    /\ (Wrote("Complete", "Reconciled") \/ Ran("Complete")) =>
         /\ Succeeded(1, "Begin")
         /\ Succeeded(2, "GetCurrentState")
         /\ Succeeded(3, "ApplyIdentityProvider")
    /\ ~Ran("Complete") =>
         /\ ReconciledOf(original.status.conditions)
              = ReconciledOf(snapshot.status.conditions)
         /\ ReconciledOf(storeStatus.conditions)
              = ReconciledOf(snapshot.status.conditions)
    /\ ExternalCalls > 0 =>
         /\ Succeeded(1, "Begin")
         /\ Len(patches) >= 1
         /\ patches[1].phase = "Begin"
         /\ patches[1].ok
         /\ Wrote("Begin", "Reconciling")
    /\ \A i \in 1..Len(phaseLog) :
         (phaseLog[i].name = "Complete" /\ phaseLog[i].err = NilErr) =>
           /\ phaseLog[i].result = RequeueAfter(Interval)
           /\ pc = "done"
           /\ result = RequeueAfter(Interval)
           /\ err = NilErr

C11_Witness ==
  /\ pc = "done"
  /\ handler = "ReconcileCreate"
  /\ Len(phaseLog) = 4
  /\ calls.create = 1
  /\ Wrote("Begin", "Reconciling")
  /\ Wrote("Complete", "Reconciled")
  /\ result = RequeueAfter(Interval)
  /\ err = NilErr

-----------------------------------------------------------------------------
(* A failed remote delete *)

DeleteFailed == DeletePass /\ calls.deleteErr > 0

\* What a failed remote delete leaves behind: Destroy returned
\* RequeueAfter(30s) and was the last phase, no condition was written and no
\* Deleted event recorded.
DeleteRetried ==
  /\ pc = "done"
  /\ phaseLog[Len(phaseLog)].name = "Destroy"
  /\ phaseLog[Len(phaseLog)].result = RequeueAfter(defaultLDAPIdentityProviderRequeue)
  /\ result = RequeueAfter(defaultLDAPIdentityProviderRequeue)
  /\ ~Ran("CompleteDestroy")
  /\ calls.patchStatus = 1
  /\ Len(patches) = 1
  /\ patches[1].phase = "Begin"
  /\ ~Recorded("Deleted")

\* C12: when ExternalStore.Delete returns an error, Destroy returns
\* RequeueAfter(30s), the pass stops, no deleted condition is set, no Deleted
\* event is recorded, and the pass returns the failure as an error to the
\* runtime that invoked it.
C12_FailedDeleteIsSurfaced ==
  DeleteFailed => (DeleteRetried /\ err # NilErr)

\* The part of C12 the code keeps: the retry without condition or event.
C12_FailedDeleteIsRetried ==
  DeleteFailed => (DeleteRetried /\ err = NilErr)

C12_Observed ==
  /\ DeleteFailed
  /\ DeleteRetried
  /\ err = NilErr

-----------------------------------------------------------------------------
(* The condition tracker, called directly *)

CondStatuses == {"True", "False"}
CondMessages == {identityProviderMessageDeleted, "identity provider is being deleted"}

\* The conditions a caller may build at time t: a constructor's value, which
\* carries LastTransitionTime = now, in either status and with either message.
CondValues(t) ==
  {[c EXCEPT !.status = st, !.message = m] :
     c \in {IdentityProviderDeleted(t), Reconciling("Create", t)},
     st \in CondStatuses, m \in CondMessages}

CondCurrent == IF cnd = <<>> THEN <<>> ELSE cnd[Len(cnd)].after

\* One SetCondition call on the object, at the next instant.
CallSetCondition ==
  /\ Len(cnd) < MaxCondCalls
  /\ \E c \in CondValues(Len(cnd) + 1) :
       cnd' = Append(cnd, [at |-> Len(cnd) + 1, before |-> CondCurrent,
                           set |-> c, after |-> SetCondition(CondCurrent, c)])
  /\ UNCHANGED <<storeVars, remote, passVars, now, hist, budget, fin, live>>

InitCond ==
  /\ InitRequest
  /\ fin = FinIdle
  /\ cnd = <<>>
  /\ live = NoLive
  /\ storeExists = TRUE
  /\ storeSpec = D0
  /\ storeDeleting = FALSE
  /\ storeFinalizers = <<>>
  /\ storeStatus = EmptyStatus
  /\ remote = EmptyRemote

NextCond == CallSetCondition

SpecCond == InitCond /\ [][NextCond]_vars

Entry(conditions, type) ==
  CHOOSE j \in 1..Len(conditions) : conditions[j].type = type

HasType(conditions, type) ==
  \E j \in 1..Len(conditions) : conditions[j].type = type

\* C13: setting a condition whose type is present with the same status keeps
\* the entry's lastTransitionTime and takes the new message and reason;
\* setting it with another status, or for a type not yet present, stamps
\* lastTransitionTime with the time of the call; the condition handed in
\* always carries the time of the call.
C13_TransitionTimeStability ==
  \A i \in 1..Len(cnd) :
    LET b == cnd[i].before
        c == cnd[i].set
        a == cnd[i].after
    IN
    /\ c.lastTransitionTime = cnd[i].at
    /\ HasType(a, c.type)
    /\ a[Entry(a, c.type)].status = c.status
    /\ a[Entry(a, c.type)].message = c.message
    /\ a[Entry(a, c.type)].reason = c.reason
    /\ IF HasType(b, c.type) /\ b[Entry(b, c.type)].status = c.status
       THEN /\ a[Entry(a, c.type)].lastTransitionTime
                 = b[Entry(b, c.type)].lastTransitionTime
            /\ a[Entry(a, c.type)].lastTransitionTime < cnd[i].at
       ELSE a[Entry(a, c.type)].lastTransitionTime = cnd[i].at
    /\ \A j \in 1..Len(b) : b[j].type # c.type => a[j] = b[j]

C13_Witness ==
  /\ Len(cnd) = 3
  /\ cnd[1].set.type = cnd[2].set.type
  /\ cnd[1].set.status = cnd[2].set.status
  /\ cnd[1].set.message # cnd[2].set.message
  /\ cnd[2].after[1].lastTransitionTime = 1
  /\ cnd[2].after[1].message = cnd[2].set.message
  /\ cnd[3].set.type = cnd[1].set.type
  /\ cnd[3].set.status # cnd[2].set.status
  /\ cnd[3].after[1].lastTransitionTime = 3

-----------------------------------------------------------------------------
(* The condition list over passes *)

NoDuplicateTypes(conditions) ==
  \A i, j \in 1..Len(conditions) :
    conditions[i].type = conditions[j].type => i = j

\* C14: whatever passes have run, the condition list of the object in memory,
\* of the stored object and of every status patch holds at most one entry
\* per condition type.
C14_NoDuplicateConditionTypes ==
  /\ NoDuplicateTypes(original.status.conditions)
  /\ NoDuplicateTypes(storeStatus.conditions)
  /\ NoDuplicateTypes(snapshot.status.conditions)
  /\ \A i \in 1..Len(patches) : NoDuplicateTypes(patches[i].mutated.conditions)

C14_Witness ==
  /\ now = 2
  /\ pc = "done"
  /\ HasType(snapshot.status.conditions, "Reconciling")
  /\ HasType(snapshot.status.conditions, "Reconciled")
  /\ Wrote("Begin", "Reconciling")
  /\ Wrote("Complete", "Reconciled")
  /\ patches[Len(patches)].ok
  /\ Len(storeStatus.conditions) = 2

-----------------------------------------------------------------------------
(* The base of status patches *)

PatchOf(phase) == CHOOSE i \in 1..Len(patches) : patches[i].phase = phase
Patched(phase) == \E i \in 1..Len(patches) : patches[i].phase = phase

-----------------------------------------------------------------------------
(* What a pass changes *)

InPhase == pc \notin {"idle", "done"}

\* C16: no phase changes request.Desired; the phases change only status
\* fields of the reconciled object (in memory and stored) and, in
\* CompleteDestroy, its finalizers; the spec of the stored object is the same
\* after every step of a pass, and a pass starts with Desired equal to it.
C16_DesiredAndSpecUntouched ==
  [][/\ InPhase =>
          /\ desired' = desired
          /\ original'.spec = original.spec
          /\ original'.deleting = original.deleting
          /\ storeSpec' = storeSpec
          /\ storeDeleting' = storeDeleting
          /\ snapshot' = snapshot
          /\ pc # "CompleteDestroy" =>
               /\ original'.finalizers = original.finalizers
               /\ storeFinalizers' = storeFinalizers
               /\ storeExists' = storeExists
          /\ pc = "CompleteDestroy" =>
               /\ original'.status = original.status
               /\ storeStatus' = storeStatus
     /\ (~InPhase /\ pc' \notin {"idle", "done"}) =>
          /\ desired' = storeSpec
          /\ UNCHANGED storeVars
    ]_vars

C16_Witness ==
  /\ pc = "done"
  /\ Ran("Complete")
  /\ calls.update = 1
  /\ current # None
  /\ current[1] # desired
  /\ storeStatus # snapshot.status
  /\ desired = snapshot.spec
  /\ storeSpec = snapshot.spec

-----------------------------------------------------------------------------
(* Deletion, with a runtime that honours requeues and stores that recover *)

Live == [on |-> TRUE, failures |-> 0, pending |-> FALSE]

\* An object with a deletion marker and the finalizer, deleted remotely or not.
InitDelete ==
  /\ InitRequest
  /\ fin = FinIdle
  /\ cnd = <<>>
  /\ live = Live
  /\ storeExists = TRUE
  /\ storeSpec = D0
  /\ storeDeleting = TRUE
  /\ storeFinalizers \in {<<FinalizerName>>, <<OtherFinalizer, FinalizerName>>}
  /\ remote \in {EmptyRemote, OCMCreate(EmptyRemote, D0Key, Builder(D0))}
  /\ \E conds \in {<<>>, <<IdentityProviderDeleted(0)>>} :
     \E known \in BOOLEAN :
       /\ known => remote[D0Key] # None
       /\ storeStatus =
            [conditions |-> conds,
             clusterID |-> IF known THEN D0Key[2] ELSE "",
             providerID |-> IF known THEN ProviderIDOf(D0Key[1]) ELSE ""]

NextDelete == Reconcile \/ Begin \/ Destroy \/ CompleteDestroy

FairDelete ==
  /\ WF_vars(Reconcile)
  /\ WF_vars(Begin)
  /\ WF_vars(Destroy)
  /\ WF_vars(CompleteDestroy)

SpecDelete == InitDelete /\ [][NextDelete]_vars /\ FairDelete

FinalizerStored == storeExists /\ ContainsString(storeFinalizers, FinalizerName)

\* C17: an object with a deletion marker and the finalizer eventually loses
\* the finalizer, once the stores have stopped failing; until then no Delete
\* pass ends with (NoRequeue, nil): each ends with an error or a requeue.
C17_DeletionCompletes ==
  /\ [](( /\ pc = "done"
          /\ DeletePass
          /\ FinalizerStored) => (err # NilErr \/ result.Requeue))
  /\ (storeDeleting /\ FinalizerStored) ~> ~FinalizerStored

C17_Witness ==
  /\ pc = "done"
  /\ DeletePass
  /\ FinalizerAtStart
  /\ snapshot.deleting
  /\ live.failures >= 2
  /\ calls.delete = 1
  /\ Returned("CompleteDestroy", NoRequeue, NilErr)
  /\ ~FinalizerStored

-----------------------------------------------------------------------------
(* The Create/Update loop, with a runtime that honours requeues *)

\* An object without a deletion marker, created remotely or not.
InitConverge == InitObjects /\ live = Live

NextConverge ==
  \/ Reconcile
  \/ Begin
  \/ GetCurrentState
  \/ ApplyIdentityProvider
  \/ Complete
  \/ EditSpec
  \/ RemoteDrift

FairConverge ==
  /\ WF_vars(Reconcile)
  /\ WF_vars(Begin)
  /\ WF_vars(GetCurrentState)
  /\ WF_vars(ApplyIdentityProvider)
  /\ WF_vars(Complete)

SpecConverge == InitConverge /\ [][NextConverge]_vars /\ FairConverge

\* The entity the controller manages for the stored object.
ManagedKey ==
  <<storeSpec.DisplayName,
    IF storeStatus.clusterID = "" THEN ClusterIDOf(storeSpec.ClusterName)
    ELSE storeStatus.clusterID>>

RemoteDriftNow ==
  IF remote[ManagedKey] = None THEN SpecFields
  ELSE Drift(storeSpec, ManagedKey, remote[ManagedKey][1])

QuietPass ==
  pc = "done" =>
    /\ calls.create = 0
    /\ calls.update = 0
    /\ result = RequeueAfter(Interval)
    /\ err = NilErr

\* The fields GetCurrentState fills from Desired instead of the entity, other
\* than the display name the entity is looked up by.
CopiedFields == {"ClusterName", "BindPasswordName", "CAName"}

\* C18: for an object without a deletion marker whose spec stops changing,
\* with stores that stop failing and every requeue honoured, eventually and
\* from then on the remote entity equals Desired, Reconciled is True, and
\* every pass calls neither Create nor Update and ends with
\* RequeueAfter(Interval).
C18_Convergence ==
  <>[](/\ RemoteDriftNow = {}
       /\ IsSet(Reconciled("Update", 0), storeStatus.conditions)
       /\ QuietPass)

\* What the loop does reach: passes become quiet and Reconciled is True, with
\* any remaining difference confined to the fields copied from Desired.
C18_ConvergenceOnComparedFields ==
  <>[](/\ RemoteDriftNow \subseteq CopiedFields
       /\ IsSet(Reconciled("Update", 0), storeStatus.conditions)
       /\ QuietPass)

-----------------------------------------------------------------------------
(* GetCurrentState *)

PhaseEntry(name) == phaseLog[CHOOSE i \in 1..Len(phaseLog) : phaseLog[i].name = name]

PatchesOf(phase) == SelectSeq(patches, LAMBDA p : p.phase = phase)

GetFound == Ran("GetCurrentState") /\ idp # None
GetNotFound ==
  Ran("GetCurrentState") /\ calls.get = 1 /\ calls.getErr = 0 /\ idp = None

\* C19: when ExternalStore.Get returns an entity, GetCurrentState issues one
\* status patch carrying the resolved cluster id and the entity's id; if the
\* patch succeeds the ids are stored and Current is populated from the
\* entity, if it fails Current stays nil and the phase returns an error.
\* When Get returns no entity and no error, Current stays nil, no status
\* patch is issued and the phase returns (NoRequeue, nil).
C19_FoundNotFoundSplit ==
  /\ GetFound =>
       LET ps == PatchesOf("GetCurrentState") IN
       /\ Len(ps) = 1
       /\ ps[1].mutated.clusterID = ocmClient[1][2]
       /\ ps[1].mutated.providerID = idp[1].id
       /\ ps[1].mutated.conditions = ps[1].base.conditions
       /\ IF ps[1].ok
          THEN /\ storeStatus.clusterID = ocmClient[1][2]
               /\ storeStatus.providerID = idp[1].id
               /\ current = Some(CurrentFrom(desired, idp[1]))
               /\ PhaseEntry("GetCurrentState").result = NoRequeue
               /\ PhaseEntry("GetCurrentState").err = NilErr
          ELSE /\ current = None
               /\ PhaseEntry("GetCurrentState").err # NilErr
               /\ storeStatus.providerID = snapshot.status.providerID
               /\ pc = "done"
  /\ GetNotFound =>
       /\ current = None
       /\ PatchesOf("GetCurrentState") = <<>>
       /\ storeStatus.clusterID = snapshot.status.clusterID
       /\ storeStatus.providerID = snapshot.status.providerID
       /\ PhaseEntry("GetCurrentState").result = NoRequeue
       /\ PhaseEntry("GetCurrentState").err = NilErr

C19_Witness ==
  /\ GetFound
  /\ snapshot.status.providerID = ""
  /\ snapshot.status.clusterID = ""
  /\ PatchesOf("GetCurrentState")[1].ok
  /\ storeStatus.providerID = idp[1].id
  /\ storeStatus.clusterID # ""
  /\ current # None

\* C20: GetCurrentState looks the cluster up exactly when the status of the
\* object read holds no cluster id; when the lookup fails or returns an
\* empty id, the phase returns an error (wrapping ErrMissingClusterID for
\* the empty id) with RequeueAfter(30s), the pass stops and ExternalStore.Get
\* is not called.
C20_ClusterLookup ==
  /\ calls.clusterGet = IF Ran("GetCurrentState") /\ snapshot.status.clusterID = ""
                        THEN 1 ELSE 0
  /\ Ran("GetCurrentState") =>
       (clusterLookup = "skip" <=> snapshot.status.clusterID # "")
  /\ clusterLookup \in {"err", "empty"} =>
       /\ pc = "done"
       /\ phaseLog[Len(phaseLog)].name = "GetCurrentState"
       /\ result = RequeueAfter(defaultLDAPIdentityProviderRequeue)
       /\ result.RequeueAfter = 30
       /\ err # NilErr
       /\ calls.get = 0
       /\ idp = None
       /\ current = None
       /\ calls.create + calls.update = 0
  /\ clusterLookup = "empty" =>
       SubSeq(err, Len(err) - Len(ErrMissingClusterID) + 1, Len(err))
         = ErrMissingClusterID
  /\ clusterLookup = "err" =>
       SubSeq(err, Len(err) - Len(ErrMissingClusterID) + 1, Len(err))
         # ErrMissingClusterID

C20_Witness ==
  /\ clusterLookup = "empty"
  /\ snapshot.status.clusterID = ""
  /\ calls.clusterGet = 1
  /\ calls.get = 0
  /\ pc = "done"
  /\ result = RequeueAfter(defaultLDAPIdentityProviderRequeue)

-----------------------------------------------------------------------------
(* External calls of one pass *)

EventCount(event) == Len(SelectSeq(events, LAMBDA e : e = event))

\* C21: in one pass ExternalStore.Get, Create, Update and Delete are each
\* called at most once and at most one of Create and Update is called; a
\* Created or Updated event is recorded only when the Create or Update call
\* of the pass returned without error.
C21_OneExternalMutationPerPass ==
  /\ calls.get <= 1
  /\ calls.create <= 1
  /\ calls.update <= 1
  /\ calls.delete <= 1
  /\ calls.create + calls.update <= 1
  /\ calls.create + calls.update + calls.delete <= 1
  /\ \A i, j \in 1..Len(phaseLog) : phaseLog[i].name = phaseLog[j].name => i = j
  /\ EventCount("Created") = IF calls.create = 1 /\ calls.writeErr = 0 THEN 1 ELSE 0
  /\ EventCount("Updated") = IF calls.update = 1 /\ calls.writeErr = 0 THEN 1 ELSE 0
  /\ calls.writeErr > 0 =>
       /\ events = <<>>
       /\ pc = "done"
       /\ err # NilErr

C21_Witness ==
  /\ pc = "done"
  /\ calls.update = 1
  /\ calls.writeErr = 1
  /\ calls.get = 1
  /\ events = <<>>
  /\ result = RequeueAfter(defaultLDAPIdentityProviderRequeue)

-----------------------------------------------------------------------------
(* Entities per natural key *)

\* C22: with one pass at a time per object, ExternalStore.Create is called
\* only in a pass whose Get for the natural key (display name, cluster id)
\* returned no entity and no error, so no Create ever lands on a key that
\* already has an entity.
C22_NoDuplicateRemoteEntity ==
  /\ calls.create > 0 =>
       /\ calls.get = 1
       /\ calls.getErr = 0
       /\ idp = None
       /\ current = None
       /\ ocmClient # None
       /\ ocmClient[1][1] = desired.DisplayName
       /\ PatchesOf("GetCurrentState") = <<>>
  /\ ~hist.duplicate

C22_Witness ==
  /\ now = 2
  /\ pc = "done"
  /\ calls.create = 1
  /\ Recorded("Created")
  /\ idp = None
  /\ remote[ocmClient[1]] # None
  /\ ~hist.duplicate

-----------------------------------------------------------------------------
(* Reconcile without a request *)

NoPipeline ==
  /\ pc = "done"
  /\ handler = "none"
  /\ trigger = "none"
  /\ phaseLog = <<>>
  /\ patches = <<>>
  /\ events = <<>>
  /\ ExternalCalls + calls.delete + calls.patch + calls.patchStatus = 0

\* C23: when NewRequest fails with NotFound, Reconcile returns
\* (NoRequeue, nil) and runs no phase; when it fails with another error,
\* Reconcile returns NoRequeue with that error wrapped and runs no phase.
C23_ReconcileWithoutRequest ==
  /\ calls.requestNotFound = 1 =>
       /\ NoPipeline
       /\ result = NoRequeue
       /\ ~result.Requeue
       /\ err = NilErr
  /\ calls.requestErr = 1 =>
       /\ NoPipeline
       /\ result = NoRequeue
       /\ err = Wrap("unable to create request", ErrGet)
       /\ SubSeq(err, 2, Len(err)) = ErrGet

C23_Witness ==
  /\ calls.requestNotFound = 1
  /\ ~storeExists
  /\ pc = "done"
  /\ result = NoRequeue
  /\ err = NilErr

-----------------------------------------------------------------------------
(* Finalizer helpers: what a call leaves behind *)

PatchFailed(i) == FinLog(i).patched /\ ~FinLog(i).patchOK

\* What both statements of C24 share: nil only with the token present
\* (AddFinalizer) or absent (RemoveFinalizer) on return; a failed Patch gives
\* an error and leaves the stored finalizers as they were.
FinalizerPostconditions(i) ==
  /\ (FinLog(i).op = "AddFinalizer" /\ FinLog(i).err = NilErr)
       => ContainsString(FinLog(i).after, FinalizerName)
  /\ (FinLog(i).op = "RemoveFinalizer" /\ FinLog(i).err = NilErr)
       => ~ContainsString(FinLog(i).after, FinalizerName)
  /\ PatchFailed(i) =>
       /\ FinLog(i).err # NilErr
       /\ FinLog(i).storeAfter = FinLog(i).storeBefore

\* C24 as stated: the postconditions, and after a failed Patch the object
\* passed in has the finalizer set it had before the call.
C24_FailedPatchLeavesObject ==
  \A i \in 1..Len(fin.log) :
    /\ FinalizerPostconditions(i)
    /\ PatchFailed(i) => FinLog(i).after = FinLog(i).before

\* C24 as the code has it: the postconditions, and after a failed Patch the
\* object passed in keeps the change made before the Patch: the token added
\* by AddFinalizer, removed by RemoveFinalizer.
C24_FailedPatchKeepsChange ==
  \A i \in 1..Len(fin.log) :
    /\ FinalizerPostconditions(i)
    /\ PatchFailed(i) =>
         /\ FinLog(i).after # FinLog(i).before
         /\ FinLog(i).after =
              IF FinLog(i).op = "AddFinalizer"
              THEN WithFinalizer(FinLog(i).before, FinalizerName)
              ELSE WithoutFinalizer(FinLog(i).before, FinalizerName)

C24_Witness ==
  /\ Len(fin.log) = 2
  /\ FinLog(1).op = "AddFinalizer"
  /\ PatchFailed(1)
  /\ FinLog(1).err # NilErr
  /\ ContainsString(FinLog(1).after, FinalizerName)
  /\ ~ContainsString(FinLog(1).before, FinalizerName)
  /\ FinLog(2).op = "AddFinalizer"
  /\ ~FinLog(2).patched
  /\ FinLog(2).err = NilErr
  /\ ~ContainsString(fin.store, FinalizerName)

====
